---- MODULE Spec2Model ----
(***************************************************************************)
(* Live audio capture and voice-activity segmentation of study_aid3.       *)
(*                                                                         *)
(*   AudioCapture             speech_recognition/audio_capture.py          *)
(*   SpeechRecognizerWithVAD  speech_recognition/speech_recognizer_with_vad.py *)
(*                                                                         *)
(*   SpeechRecognizer         speech_recognition/speech_recognizer_non_stream.py *)
(*                                                                         *)
(* Ten specifications share the variables:                                 *)
(*   SpecCapture   one AudioCapture object, its capture threads, the       *)
(*                 native streams and their callbacks, and a consumer of   *)
(*                 the queue                                               *)
(*   SpecVAD       one SpeechRecognizerWithVAD object, the thread calling  *)
(*                 its start() and stop(), its segmentation threads, its   *)
(*                 recognitions and a producer of frames                   *)
(*   SpecCallers   the same object with several threads calling start()    *)
(*                 and stop() and no frame arriving                        *)
(*   SpecScenario  a SpeechRecognizerWithVAD with the default smoothing    *)
(*                 factor, started once and fed one fixed frame sequence   *)
(*   SpecMono      _is_speech run on one frame sequence under two          *)
(*                 thresholds                                              *)
(*   SpecRecognize calls of recognize_audio_chunk of both recognizers and  *)
(*                 the files they leave in temp_files_dir                  *)
(*   SpecStall     the recognizer of SpecVAD fed a few frames by a capture *)
(*                 that then stalls, its segmentation threads scheduled    *)
(*                 fairly                                                  *)
(*   SpecNormalize one capture session of either kind on a stream whose    *)
(*                 blocks are spelled out sample by sample, its callback   *)
(*                 and a consumer of the queue                             *)
(*   SpecBlocks    the recognizer of SpecVAD, started once and fed by the  *)
(*                 callback of a stream with the block size of a real      *)
(*                 backend                                                 *)
(*   SpecNonStream one SpeechRecognizer object, the thread calling its     *)
(*                 start() and stop(), its processing threads and a        *)
(*                 producer of chunks                                      *)
(* Waits with a timeout (Thread.join, Event.wait) return either because    *)
(* the awaited condition holds or because the timeout expired; the model   *)
(* has no clock, so a timeout may expire in any state.  The exception is   *)
(* the join of SpeechRecognizer.stop(): the loop of that thread waits 0.1 s *)
(* at most and starts its recognitions in threads of their own, so the 2 s *)
(* join expires only while the thread runs the final recognition.          *)
(* A segmentation thread can be preempted between dequeuing a frame and    *)
(* processing it, and in a flush before the state is set to SILENCE and    *)
(* after np.concatenate; the classification and buffering of one frame are *)
(* taken as one step.                                                      *)
(***************************************************************************)
EXTENDS Integers, Sequences, FiniteSets, TLC

----------------------------------------------------------------------------
(* Bounds of the model *)

\* threads ever created by start_*_capture on the one AudioCapture
MaxCaptureThreads == 2
\* blocks the native backends deliver over a whole run
MaxFrames == 4
\* queue.Queue(maxsize=100) of AudioCapture.__init__, scaled down
maxsize == 2

\* segmentation threads ever created by start() on the one recognizer
MaxSegThreads == 2
\* frames delivered to the recognizer's queue over a whole run
MaxVadFrames == 5
\* frames of the sequence classified under two thresholds
MaxMonoFrames == 4
\* threads that call start() and stop() of the one recognizer
MaxCallers == 2
\* calls of recognize_audio_chunk over a whole run
MaxTasks == 2
\* values time.time() takes over a whole run, after scaling
MaxClock == 2
\* blocks a native stream hands to its callback over a whole run
MaxBlocks == 2
\* processing threads ever created by start() on the one non-stream recognizer
MaxNsThreads == 2

\* RMS energy levels of a frame, in thousandths of full scale
Energies == {0, 100}
\* energy of the blocks the native backends deliver: AudioCapture never looks at
\* the samples of a block, so one level stands for every content
CapturedEnergies == {300}
\* speech thresholds compared by the two-threshold run, in thousandths
Thresholds == {10, 20, 100}

CaptureThreads == 1..MaxCaptureThreads
SegThreads == 1..MaxSegThreads
Callers == 1..MaxCallers
Tasks == 1..MaxTasks

\* a frame is its capture sequence number and its RMS energy
Frame(n, e) == [id |-> n, e |-> e]

----------------------------------------------------------------------------
VARIABLES
    \* ---- AudioCapture fields (audio_capture.py:11-23)
    audio_queue,            \* queue.Queue(maxsize): sequence of frames, head first
    ac_stop_event,          \* self.stop_event
    capture_started_event,  \* self.capture_started_event
    capture_thread,         \* self.capture_thread: thread id, 0 = None
    sd_stream,              \* self.sd_stream: stream id, 0 = None
    pyaudio_stream,         \* self.pyaudio_stream: stream id, 0 = None
    pyaudio_instance,       \* self.pyaudio_instance: instance id, 0 = None
    is_capturing,           \* self.is_capturing
    capture_sample_rate,    \* self.capture_sample_rate: "None" or "target"
    \* ---- threads, native resources, callers of AudioCapture
    capKind,                \* thread id -> "none" | "mic" | "sys"
    capPc,                  \* thread id -> position in its target function
    openStreams,            \* native streams currently open (stream id = id of the opening thread)
    openInstances,          \* PyAudio instances not yet terminated
    streamInst,             \* stream id -> PyAudio instance it was opened from (0: sounddevice)
    cbBlocked,              \* stream id -> frame its callback is waiting to put, or NoFrame
    apiPc,                  \* position of the caller inside an AudioCapture method
    apiRet,                 \* where stop_capture returns to
    apiResult,              \* value returned by the last start_*_capture
    lastCall,               \* last AudioCapture method that returned
    stoppedSessions,        \* sessions whose stop_capture has returned
    lastDropped,            \* id of the last frame discarded on a full queue, 0 = none
    nextFrame               \* sequence number of the next delivered block

NoFrame == Frame(0, 0)

captureVars == <<audio_queue, ac_stop_event, capture_started_event, capture_thread,
                 sd_stream, pyaudio_stream, pyaudio_instance, is_capturing,
                 capture_sample_rate, capKind, capPc, openStreams, openInstances,
                 streamInst, cbBlocked, apiPc, apiRet, apiResult, lastCall,
                 stoppedSessions, lastDropped, nextFrame>>

\* the AudioCapture state a consumer or a producer of the queue leaves alone
captureOnlyVars == <<ac_stop_event, capture_started_event, capture_thread, sd_stream,
                     pyaudio_stream, pyaudio_instance, is_capturing, capture_sample_rate,
                     capKind, capPc, openStreams, openInstances, streamInst, cbBlocked,
                     apiPc, apiRet, apiResult, lastCall, stoppedSessions, lastDropped>>

VARIABLES
    \* ---- SpeechRecognizerWithVAD fields (speech_recognizer_with_vad.py:28-58)
    config,                 \* the arguments of __init__ that the VAD uses
    rec_stop_event,         \* self.stop_event
    processing_thread,      \* self.processing_thread: thread id, 0 = None
    is_speaking,            \* self.is_speaking
    silence_frames,         \* self.silence_frames
    speech_frames,          \* self.speech_frames: the utterance buffer
    smoothed_energy,        \* self.smoothed_energy, in thousandths
    current_state,          \* self.current_state: "SILENCE" | "SPEECH"
    silent_frames_count,    \* self.silent_frames_count
    \* ---- threads, recognitions, callers of the recognizer
    segPc,                  \* thread id -> position in _process_audio_queue
    held,                   \* thread id -> the frame it dequeued and has not processed, or NoFrame
    segment,                \* thread id -> its local speech_segment between concatenate and clear
    utterances,             \* every buffer handed to recognition, in hand-off order
    callPc,                 \* caller -> position inside start()/stop()
    joined,                 \* caller -> the thread its stop() is joining, 0 = none
    stopPending,            \* caller -> the utterance buffer as it was when it called stop() in SPEECH
    processed               \* frames run through _process_audio_frame, with their classification
                            \* and the current_state they met

vadVars == <<config, rec_stop_event, processing_thread, is_speaking, silence_frames,
             speech_frames, smoothed_energy, current_state, silent_frames_count,
             segPc, held, segment, utterances, callPc, joined, stopPending, processed>>

VARIABLES
    \* ---- _is_speech on one frame sequence under two thresholds
    monoT1, monoT2,         \* the two values of self.speech_threshold
    monoS1, monoS2,         \* self.smoothed_energy of the two runs
    monoD1, monoD2          \* the decisions _is_speech returned, frame by frame

monoVars == <<monoT1, monoT2, monoS1, monoS2, monoD1, monoD2>>

VARIABLES
    \* ---- recognize_audio_chunk and temp_files_dir
    keep_temp_files,        \* SpeechRecognizer.keep_temp_files
    temp_files,             \* the files that exist in temp_files_dir
    clock,                  \* time.time(), scaled to the unit of the file names
    tasks                   \* call -> its recognizer, its position, the time in its file names

recognizeVars == <<keep_temp_files, temp_files, clock, tasks>>

VARIABLES
    \* ---- the native stream of a capture session and what its callback makes of a block
    stream,                 \* the stream as opened: kind, channels, rate, frame_count
    norm,                   \* locals of the last callback: in_data, mono_audio, resampled_audio
    reported                \* sample rate returned by start_*_capture, 0 = not yet

normVars == <<stream, norm, reported>>

VARIABLES
    \* ---- SpeechRecognizer fields (speech_recognizer_non_stream.py:11-34)
    ns_stop_event,          \* self.stop_event
    ns_processing_thread,   \* self.processing_thread: thread id, 0 = None
    audio_buffer,           \* self.audio_buffer: the chunks not yet cut into a block
    \* ---- its threads and callers
    nsPc,                   \* thread id -> position in _process_audio_queue
    nsCallPc,               \* position of the caller inside stop()
    recognized,             \* the blocks passed to recognize_audio_chunk, in call order
    dequeued                \* ids of the chunks taken from the queue, in order

nsVars == <<ns_stop_event, ns_processing_thread, audio_buffer, nsPc, nsCallPc,
            recognized, dequeued>>

vars == <<captureVars, vadVars, monoVars, recognizeVars, normVars, nsVars>>

----------------------------------------------------------------------------
(* queue.Queue *)

\* Queue.full()
QueueFull(q) == Len(q) >= maxsize

\* try: audio_queue.put_nowait(x)  except queue.Full: pass   -- lets the queue grow
PutNowaitOrDrop_unbounded(q, f) == Append(q, f)

\* try: audio_queue.put_nowait(x)  except queue.Full: pass   -- evicts the head
PutNowaitOrDrop_evictOldest(q, f) ==
    IF QueueFull(q) THEN Append(Tail(q), f) ELSE Append(q, f)

\* try: audio_queue.put_nowait(x)  except queue.Full: pass
PutNowaitOrDrop(q, f) ==
    IF QueueFull(q) THEN q ELSE Append(q, f)

----------------------------------------------------------------------------
(* AudioCapture *)

InitCapture ==
    /\ audio_queue = <<>>
    /\ ac_stop_event = FALSE
    /\ capture_started_event = FALSE
    /\ capture_thread = 0
    /\ sd_stream = 0
    /\ pyaudio_stream = 0
    /\ pyaudio_instance = 0
    /\ is_capturing = FALSE
    /\ capture_sample_rate = "None"
    /\ capKind = [t \in CaptureThreads |-> "none"]
    /\ capPc = [t \in CaptureThreads |-> "unborn"]
    /\ openStreams = {}
    /\ openInstances = {}
    /\ streamInst = [t \in CaptureThreads |-> 0]
    /\ cbBlocked = [t \in CaptureThreads |-> NoFrame]
    /\ apiPc = "idle"
    /\ apiRet = "idle"
    /\ apiResult = "none"
    /\ lastCall = "none"
    /\ stoppedSessions = {}
    /\ lastDropped = 0
    /\ nextFrame = 1

ThreadsCreated == {t \in CaptureThreads : capPc[t] # "unborn"}
NewThread == Cardinality(ThreadsCreated) + 1
IsAlive(t) == t # 0 /\ capPc[t] \notin {"unborn", "done"}

\* streams closed by stream.stop(); stream.close() / PyAudio.terminate()
CloseStream(s) == IF s = 0 THEN {} ELSE {s}
StreamsOf(inst) == {s \in openStreams : inst # 0 /\ streamInst[s] = inst}

\* a stream's stop() waits for a callback that is still running
CallbackRunning(s) == s # 0 /\ s \in openStreams /\ cbBlocked[s] # NoFrame

\* start_microphone_capture, audio_capture.py:61-67
StartMicrophoneCapture ==
    /\ apiPc = "idle"
    /\ NewThread \in CaptureThreads
    /\ ac_stop_event' = FALSE
    /\ capKind' = [capKind EXCEPT ![NewThread] = "mic"]
    /\ capPc' = [capPc EXCEPT ![NewThread] = "start"]
    /\ capture_thread' = NewThread
    /\ apiResult' = "target"
    /\ lastCall' = "mic"
    /\ UNCHANGED <<audio_queue, capture_started_event, sd_stream, pyaudio_stream,
                   pyaudio_instance, is_capturing, capture_sample_rate, openStreams,
                   openInstances, streamInst, cbBlocked, apiPc, apiRet,
                   stoppedSessions, lastDropped, nextFrame>>
    /\ UNCHANGED <<vadVars, monoVars, recognizeVars, normVars, nsVars>>

\* what the caller of stop_capture does when stop_capture returns
ReturnTo(ret) ==
    CASE ret = "idle"      -> /\ apiPc' = "idle"
                              /\ lastCall' = "stop"
                              /\ UNCHANGED apiResult
      [] ret = "sys_begin" -> /\ apiPc' = "sys_begin"
                              /\ UNCHANGED <<lastCall, apiResult>>
      [] ret = "sys_fail"  -> /\ apiPc' = "idle"
                              /\ lastCall' = "sys"
                              /\ apiResult' = "None"

\* stop_capture, audio_capture.py:204-207: the guard and stop_event.set()
StopCaptureEntry(ret) ==
    IF ac_stop_event
    THEN /\ ReturnTo(ret)
         /\ UNCHANGED <<ac_stop_event, apiRet>>
    ELSE /\ ac_stop_event' = TRUE
         /\ apiPc' = "stop_join"
         /\ apiRet' = ret
         /\ UNCHANGED <<lastCall, apiResult>>

\* a call of stop_capture by the application
StopCapture ==
    /\ apiPc = "idle"
    /\ StopCaptureEntry("idle")
    /\ UNCHANGED <<audio_queue, capture_started_event, capture_thread, sd_stream,
                   pyaudio_stream, pyaudio_instance, is_capturing, capture_sample_rate,
                   capKind, capPc, openStreams, openInstances, streamInst, cbBlocked,
                   stoppedSessions, lastDropped, nextFrame>>
    /\ UNCHANGED <<vadVars, monoVars, recognizeVars, normVars, nsVars>>

\* stop_capture, audio_capture.py:209-249: join(timeout=3), then close what the
\* fields name, drain the queue.  timedOut: the join returned with the thread alive.
StopCaptureFinish(timedOut) ==
    /\ apiPc = "stop_join"
    /\ timedOut = IsAlive(capture_thread)
    /\ ~CallbackRunning(sd_stream)
    /\ capture_thread' = 0
    /\ openStreams' = openStreams \ (CloseStream(pyaudio_stream) \cup StreamsOf(pyaudio_instance)
                                      \cup CloseStream(sd_stream))
    /\ openInstances' = openInstances \ CloseStream(pyaudio_instance)
    /\ pyaudio_stream' = 0
    /\ pyaudio_instance' = 0
    /\ sd_stream' = 0
    /\ audio_queue' = <<>>
    /\ is_capturing' = FALSE
    /\ stoppedSessions' = stoppedSessions \cup CloseStream(capture_thread)
    /\ ReturnTo(apiRet)
    /\ apiRet' = "idle"
    /\ UNCHANGED <<ac_stop_event, capture_started_event, capture_sample_rate, capKind,
                   capPc, streamInst, cbBlocked, lastDropped, nextFrame>>
    /\ UNCHANGED <<vadVars, monoVars, recognizeVars, normVars, nsVars>>

\* start_system_audio_capture, audio_capture.py:71: self.stop_capture()
StartSystemAudioCapture ==
    /\ apiPc = "idle"
    /\ NewThread \in CaptureThreads
    /\ StopCaptureEntry("sys_begin")
    /\ UNCHANGED <<audio_queue, capture_started_event, capture_thread, sd_stream,
                   pyaudio_stream, pyaudio_instance, is_capturing, capture_sample_rate,
                   capKind, capPc, openStreams, openInstances, streamInst, cbBlocked,
                   stoppedSessions, lastDropped, nextFrame>>
    /\ UNCHANGED <<vadVars, monoVars, recognizeVars, normVars, nsVars>>

\* start_system_audio_capture, audio_capture.py:72-75
StartSystemThread ==
    /\ apiPc = "sys_begin"
    /\ ac_stop_event' = FALSE
    /\ capture_started_event' = FALSE
    /\ capKind' = [capKind EXCEPT ![NewThread] = "sys"]
    /\ capPc' = [capPc EXCEPT ![NewThread] = "start"]
    /\ capture_thread' = NewThread
    /\ apiPc' = "sys_wait"
    /\ UNCHANGED <<audio_queue, sd_stream, pyaudio_stream, pyaudio_instance,
                   is_capturing, capture_sample_rate, openStreams, openInstances,
                   streamInst, cbBlocked, apiRet, apiResult, lastCall,
                   stoppedSessions, lastDropped, nextFrame>>
    /\ UNCHANGED <<vadVars, monoVars, recognizeVars, normVars, nsVars>>

\* start_system_audio_capture, audio_capture.py:78-83: wait(timeout=5) returned True
StartSystemStarted ==
    /\ apiPc = "sys_wait"
    /\ capture_started_event
    /\ apiResult' = capture_sample_rate
    /\ apiPc' = "idle"
    /\ lastCall' = "sys"
    /\ UNCHANGED <<audio_queue, ac_stop_event, capture_started_event, capture_thread,
                   sd_stream, pyaudio_stream, pyaudio_instance, is_capturing,
                   capture_sample_rate, capKind, capPc, openStreams, openInstances,
                   streamInst, cbBlocked, apiRet, stoppedSessions, lastDropped, nextFrame>>
    /\ UNCHANGED <<vadVars, monoVars, recognizeVars, normVars, nsVars>>

\* start_system_audio_capture, audio_capture.py:78-82: wait(timeout=5) expired
StartSystemTimeout ==
    /\ apiPc = "sys_wait"
    /\ ~capture_started_event
    /\ StopCaptureEntry("sys_fail")
    /\ UNCHANGED <<audio_queue, capture_started_event, capture_thread, sd_stream,
                   pyaudio_stream, pyaudio_instance, is_capturing, capture_sample_rate,
                   capKind, capPc, openStreams, openInstances, streamInst, cbBlocked,
                   stoppedSessions, lastDropped, nextFrame>>
    /\ UNCHANGED <<vadVars, monoVars, recognizeVars, normVars, nsVars>>

\* _capture_microphone, audio_capture.py:94-103 (ok) / 106-108 (the open raised)
MicOpen(t, ok) ==
    /\ capKind[t] = "mic"
    /\ capPc[t] = "start"
    /\ capture_started_event' = TRUE
    /\ IF ok
       THEN /\ sd_stream' = t
            /\ openStreams' = openStreams \cup {t}
            /\ is_capturing' = TRUE
            /\ capPc' = [capPc EXCEPT ![t] = "wait"]
       ELSE /\ capPc' = [capPc EXCEPT ![t] = "finally"]
            /\ UNCHANGED <<sd_stream, openStreams, is_capturing>>
    /\ UNCHANGED <<audio_queue, ac_stop_event, capture_thread, pyaudio_stream,
                   pyaudio_instance, capture_sample_rate, capKind, openInstances,
                   streamInst, cbBlocked, apiPc, apiRet, apiResult, lastCall,
                   stoppedSessions, lastDropped, nextFrame>>
    /\ UNCHANGED <<vadVars, monoVars, recognizeVars, normVars, nsVars>>

\* _capture_microphone, audio_capture.py:104: self.stop_event.wait()
MicWait(t) ==
    /\ capKind[t] = "mic"
    /\ capPc[t] = "wait"
    /\ ac_stop_event
    /\ capPc' = [capPc EXCEPT ![t] = "finally"]
    /\ UNCHANGED <<audio_queue, ac_stop_event, capture_started_event, capture_thread,
                   sd_stream, pyaudio_stream, pyaudio_instance, is_capturing,
                   capture_sample_rate, capKind, openStreams, openInstances, streamInst,
                   cbBlocked, apiPc, apiRet, apiResult, lastCall, stoppedSessions,
                   lastDropped, nextFrame>>
    /\ UNCHANGED <<vadVars, monoVars, recognizeVars, normVars, nsVars>>

\* _capture_microphone, audio_capture.py:109-113: closes whatever self.sd_stream names
MicFinally(t) ==
    /\ capKind[t] = "mic"
    /\ capPc[t] = "finally"
    /\ ~CallbackRunning(sd_stream)
    /\ openStreams' = openStreams \ CloseStream(sd_stream)
    /\ capPc' = [capPc EXCEPT ![t] = "done"]
    /\ UNCHANGED <<audio_queue, ac_stop_event, capture_started_event, capture_thread,
                   sd_stream, pyaudio_stream, pyaudio_instance, is_capturing,
                   capture_sample_rate, capKind, openInstances, streamInst, cbBlocked,
                   apiPc, apiRet, apiResult, lastCall, stoppedSessions, lastDropped,
                   nextFrame>>
    /\ UNCHANGED <<vadVars, monoVars, recognizeVars, normVars, nsVars>>

\* _capture_system_audio, audio_capture.py:119-123 (ok) / 194-196 (PyAudio() raised)
SysInit(t, ok) ==
    /\ capKind[t] = "sys"
    /\ capPc[t] = "start"
    /\ IF ok
       THEN /\ pyaudio_instance' = t
            /\ openInstances' = openInstances \cup {t}
            /\ capPc' = [capPc EXCEPT ![t] = "init"]
            /\ UNCHANGED capture_started_event
       ELSE /\ capture_started_event' = TRUE
            /\ capPc' = [capPc EXCEPT ![t] = "done"]
            /\ UNCHANGED <<pyaudio_instance, openInstances>>
    /\ UNCHANGED <<audio_queue, ac_stop_event, capture_thread, sd_stream, pyaudio_stream,
                   is_capturing, capture_sample_rate, capKind, openStreams, streamInst,
                   cbBlocked, apiPc, apiRet, apiResult, lastCall, stoppedSessions,
                   lastDropped, nextFrame>>
    /\ UNCHANGED <<vadVars, monoVars, recognizeVars, normVars, nsVars>>

\* _capture_system_audio, audio_capture.py:177-190 (ok) / 194-196 (the open raised);
\* self.pyaudio_instance is None after a stop_capture, and .open then raises
SysOpen(t, ok) ==
    /\ capKind[t] = "sys"
    /\ capPc[t] = "init"
    /\ ok => pyaudio_instance # 0
    /\ capture_started_event' = TRUE
    /\ IF ok
       THEN /\ pyaudio_stream' = t
            /\ openStreams' = openStreams \cup {t}
            /\ streamInst' = [streamInst EXCEPT ![t] = pyaudio_instance]
            /\ is_capturing' = TRUE
            /\ capture_sample_rate' = "target"
            /\ capPc' = [capPc EXCEPT ![t] = "wait"]
       ELSE /\ capPc' = [capPc EXCEPT ![t] = "done"]
            /\ UNCHANGED <<pyaudio_stream, openStreams, streamInst, is_capturing,
                           capture_sample_rate>>
    /\ UNCHANGED <<audio_queue, ac_stop_event, capture_thread, sd_stream,
                   pyaudio_instance, capKind, openInstances, cbBlocked, apiPc, apiRet,
                   apiResult, lastCall, stoppedSessions, lastDropped, nextFrame>>
    /\ UNCHANGED <<vadVars, monoVars, recognizeVars, normVars, nsVars>>

\* _capture_system_audio, audio_capture.py:192-199: wait, then exit without cleanup
SysWait(t) ==
    /\ capKind[t] = "sys"
    /\ capPc[t] = "wait"
    /\ ac_stop_event
    /\ capPc' = [capPc EXCEPT ![t] = "done"]
    /\ UNCHANGED <<audio_queue, ac_stop_event, capture_started_event, capture_thread,
                   sd_stream, pyaudio_stream, pyaudio_instance, is_capturing,
                   capture_sample_rate, capKind, openStreams, openInstances, streamInst,
                   cbBlocked, apiPc, apiRet, apiResult, lastCall, stoppedSessions,
                   lastDropped, nextFrame>>
    /\ UNCHANGED <<vadVars, monoVars, recognizeVars, normVars, nsVars>>

\* _capture_microphone.callback, audio_capture.py:88-92: Queue.put waits for space
MicCallback(s, e) ==
    /\ s \in openStreams
    /\ capKind[s] = "mic"
    /\ cbBlocked[s] = NoFrame
    /\ nextFrame <= MaxFrames
    /\ nextFrame' = nextFrame + 1
    /\ IF ac_stop_event
       THEN UNCHANGED <<audio_queue, cbBlocked>>
       ELSE IF QueueFull(audio_queue)
            THEN /\ cbBlocked' = [cbBlocked EXCEPT ![s] = Frame(nextFrame, e)]
                 /\ UNCHANGED audio_queue
            ELSE /\ audio_queue' = Append(audio_queue, Frame(nextFrame, e))
                 /\ UNCHANGED cbBlocked
    /\ UNCHANGED <<ac_stop_event, capture_started_event, capture_thread, sd_stream,
                   pyaudio_stream, pyaudio_instance, is_capturing, capture_sample_rate,
                   capKind, capPc, openStreams, openInstances, streamInst, apiPc, apiRet,
                   apiResult, lastCall, stoppedSessions, lastDropped>>
    /\ UNCHANGED <<vadVars, monoVars, recognizeVars, normVars, nsVars>>

\* _capture_microphone.callback, audio_capture.py:92: the waiting put gets its slot
MicCallbackResume(s) ==
    /\ cbBlocked[s] # NoFrame
    /\ ~QueueFull(audio_queue)
    /\ audio_queue' = Append(audio_queue, cbBlocked[s])
    /\ cbBlocked' = [cbBlocked EXCEPT ![s] = NoFrame]
    /\ UNCHANGED <<ac_stop_event, capture_started_event, capture_thread, sd_stream,
                   pyaudio_stream, pyaudio_instance, is_capturing, capture_sample_rate,
                   capKind, capPc, openStreams, openInstances, streamInst, apiPc, apiRet,
                   apiResult, lastCall, stoppedSessions, lastDropped, nextFrame>>
    /\ UNCHANGED <<vadVars, monoVars, recognizeVars, normVars, nsVars>>

\* _capture_system_audio.callback, audio_capture.py:127-175
SysCallback(s, e) ==
    /\ s \in openStreams
    /\ capKind[s] = "sys"
    /\ nextFrame <= MaxFrames
    /\ nextFrame' = nextFrame + 1
    /\ audio_queue' = PutNowaitOrDrop(audio_queue, Frame(nextFrame, e))
    /\ lastDropped' = IF QueueFull(audio_queue) THEN nextFrame ELSE lastDropped
    /\ UNCHANGED <<ac_stop_event, capture_started_event, capture_thread, sd_stream,
                   pyaudio_stream, pyaudio_instance, is_capturing, capture_sample_rate,
                   capKind, capPc, openStreams, openInstances, streamInst, cbBlocked,
                   apiPc, apiRet, apiResult, lastCall, stoppedSessions>>
    /\ UNCHANGED <<vadVars, monoVars, recognizeVars, normVars, nsVars>>

\* get_audio_data, audio_capture.py:251-256: a consumer takes the head of the queue
GetAudioData ==
    /\ audio_queue # <<>>
    /\ audio_queue' = Tail(audio_queue)
    /\ UNCHANGED <<ac_stop_event, capture_started_event, capture_thread, sd_stream,
                   pyaudio_stream, pyaudio_instance, is_capturing, capture_sample_rate,
                   capKind, capPc, openStreams, openInstances, streamInst, cbBlocked,
                   apiPc, apiRet, apiResult, lastCall, stoppedSessions, lastDropped,
                   nextFrame>>
    /\ UNCHANGED <<vadVars, monoVars, recognizeVars, normVars, nsVars>>

NextCapture ==
    \/ StartMicrophoneCapture
    \/ StartSystemAudioCapture
    \/ StartSystemThread
    \/ StartSystemStarted
    \/ StartSystemTimeout
    \/ StopCapture
    \/ \E timedOut \in BOOLEAN : StopCaptureFinish(timedOut)
    \/ \E t \in CaptureThreads, ok \in BOOLEAN : MicOpen(t, ok)
    \/ \E t \in CaptureThreads : MicWait(t)
    \/ \E t \in CaptureThreads : MicFinally(t)
    \/ \E t \in CaptureThreads, ok \in BOOLEAN : SysInit(t, ok)
    \/ \E t \in CaptureThreads, ok \in BOOLEAN : SysOpen(t, ok)
    \/ \E t \in CaptureThreads : SysWait(t)
    \/ \E s \in CaptureThreads, e \in CapturedEnergies : MicCallback(s, e)
    \/ \E s \in CaptureThreads : MicCallbackResume(s)
    \/ \E s \in CaptureThreads, e \in CapturedEnergies : SysCallback(s, e)
    \/ GetAudioData

----------------------------------------------------------------------------
(* SpeechRecognizerWithVAD: configuration fixed by __init__ *)

\* self.smoothing_factor = SmoothNum / SmoothDen
SmoothNum == 1
SmoothDen == 4
\* self.speech_threshold, in thousandths of full scale
speech_threshold == 20
\* self.silence_duration and self.chunk_duration, in milliseconds
silence_duration == 200
chunk_duration == 100
\* the timeout of audio_queue.get, in milliseconds
QueueGetTimeout == 100

\* the arguments the recognizer of SpecVAD is constructed with
ConstructedConfig ==
    [smoothing_factor |-> <<SmoothNum, SmoothDen>>,
     speech_threshold |-> speech_threshold,
     silence_duration |-> silence_duration,
     chunk_duration |-> chunk_duration]

\* the defaults of __init__ (smoothing_factor=0.9, silence_duration=1.0,
\* chunk_duration=0.1) with speech_threshold=0.02
ScenarioConfig ==
    [smoothing_factor |-> <<9, 10>>,
     speech_threshold |-> 20,
     silence_duration |-> 1000,
     chunk_duration |-> 100]

\* RMS energies of the frames fed to that recognizer: 1 frame of energy 0,
\* 5 frames of energy 0.5, 12 frames of energy 0
ScenarioInput == <<0>> \o [k \in 1..5 |-> 500] \o [k \in 1..12 |-> 0]

\* RMS energies of the frames a capture delivers before it stalls: an utterance
\* that ends in silence, then the first frame of a second one
StallInput == <<100, 0, 0, 100>>

\* self.silence_frames_needed = int(silence_duration / chunk_duration)
silence_frames_needed == config.silence_duration \div config.chunk_duration
\* self.silence_threshold_frames = int(self.silence_duration / self.chunk_duration)
silence_threshold_frames == config.silence_duration \div config.chunk_duration

\* _is_speech, line 118 -- the energy of the frame taken as it is
SmoothedEnergy_unsmoothed(prev, e) == e

\* _is_speech, line 118: the smoothed energy after a frame of RMS energy e
SmoothedEnergy(prev, e) ==
    (config.smoothing_factor[1] * prev
       + (config.smoothing_factor[2] - config.smoothing_factor[1]) * e)
    \div config.smoothing_factor[2]

\* _is_speech, line 120 -- comparison turned round
IsSpeech_inverted(smoothed, threshold) == smoothed < threshold

\* _is_speech, line 120: is_speech = self.smoothed_energy > self.speech_threshold
IsSpeech(smoothed, threshold) == smoothed > threshold

\* _process_audio_frame, lines 132-133: current_state after the classification; the
\* flush (line 142) apart
StateAfter(state, is_speech) ==
    IF state = "SILENCE" /\ is_speech THEN "SPEECH" ELSE state

\* _process_audio_frame, lines 136 and 138 -- every frame is buffered
BufferAfter_keepAll(state, buffer, f, is_speech) == Append(buffer, f)

\* _process_audio_frame, lines 136 and 138: speech_frames after the frame f
BufferAfter(state, buffer, f, is_speech) ==
    IF state = "SPEECH" \/ is_speech THEN Append(buffer, f) ELSE buffer

\* _process_audio_frame, line 141 -- one silent frame more than configured
FlushDue_late(count) == count > silence_frames_needed

\* _process_audio_frame, line 141: self.silent_frames_count >= self.silence_frames_needed
FlushDue(count) == count >= silence_frames_needed

\* _process_audio_frame, lines 139-149 -- a speech frame does not reset the counter
SilentCountAfter_noReset(count, is_speech) ==
    IF is_speech THEN count ELSE count + 1

\* _process_audio_frame, lines 139-149 -- every frame counts as silent
SilentCountAfter_countsAll(count, is_speech) == count + 1

\* _process_audio_frame, lines 139-149: silent_frames_count after a frame in SPEECH
SilentCountAfter(count, is_speech) ==
    IF is_speech THEN 0 ELSE count + 1

\* recognize_audio_chunk, line 183: audio_chunk.any()
AnySample(frames) == \E k \in DOMAIN frames : frames[k].e # 0

\* an utterance handed to recognize_audio_chunk; runner is the segmentation
\* thread that runs it inside its own loop, or 0 for a thread of its own
Utterance(frames, runner) ==
    [frames |-> frames, runner |-> runner,
     st |-> IF AnySample(frames) THEN "inflight" ELSE "skipped"]

\* how a call of recognize_audio_chunk ends:
\*   text         a text was handed to on_speech_recognized (lines 223-235)
\*   empty        the engine exited with status 0 and printed nothing
\*   exception    the try block raised; the handler prints the error (lines 237-238)
\*   exit_stderr  the engine exited with a non-zero status and wrote to stderr,
\*                which is printed (lines 220-221); returncode is never read
\*   exit_silent  the engine exited with a non-zero status and wrote nothing
Outcomes == {"text", "empty", "exception", "exit_stderr", "exit_silent"}

\* the outcomes in which the transcription failed
Failed(st) == st \in {"exception", "exit_stderr", "exit_silent"}
\* the failures of which recognize_audio_chunk prints something
Reported(st) == st \in {"exception", "exit_stderr"}

----------------------------------------------------------------------------
(* SpeechRecognizerWithVAD *)

InitVADWith(cfg) ==
    /\ config = cfg
    /\ rec_stop_event = FALSE
    /\ processing_thread = 0
    /\ is_speaking = FALSE
    /\ silence_frames = 0
    /\ speech_frames = <<>>
    /\ smoothed_energy = 0
    /\ current_state = "SILENCE"
    /\ silent_frames_count = 0
    /\ segPc = [t \in SegThreads |-> "unborn"]
    /\ held = [t \in SegThreads |-> NoFrame]
    /\ segment = [t \in SegThreads |-> <<>>]
    /\ utterances = <<>>
    /\ callPc = [c \in Callers |-> "idle"]
    /\ joined = [c \in Callers |-> 0]
    /\ stopPending = [c \in Callers |-> <<>>]
    /\ processed = <<>>

InitVAD == InitVADWith(ConstructedConfig)

SegCreated == {t \in SegThreads : segPc[t] # "unborn"}
NewSegThread == Cardinality(SegCreated) + 1
\* Thread.is_alive(): started, and neither returned nor ended by an exception
SegAlive(t) == t # 0 /\ segPc[t] \notin {"unborn", "done", "raised"}

\* start, speech_recognizer_with_vad.py:61-79, called by c
Start(c) ==
    /\ callPc[c] = "idle"
    /\ IF SegAlive(processing_thread)
       THEN UNCHANGED <<rec_stop_event, processing_thread, is_speaking, silence_frames,
                        speech_frames, smoothed_energy, segPc>>
       ELSE /\ NewSegThread \in SegThreads
            /\ rec_stop_event' = FALSE
            /\ is_speaking' = FALSE
            /\ silence_frames' = 0
            /\ speech_frames' = <<>>
            /\ smoothed_energy' = 0
            /\ processing_thread' = NewSegThread
            /\ segPc' = [segPc EXCEPT ![NewSegThread] = "check"]
    /\ UNCHANGED <<config, current_state, silent_frames_count, held, segment, utterances,
                   callPc, joined, stopPending, processed, audio_queue, nextFrame>>
    /\ UNCHANGED <<captureOnlyVars, monoVars, recognizeVars, normVars, nsVars>>

\* _trigger_recognition, speech_recognizer_with_vad.py:171-177
TriggerRecognition ==
    IF speech_frames # <<>>
    THEN /\ utterances' = Append(utterances, Utterance(speech_frames, 0))
         /\ speech_frames' = <<>>
    ELSE UNCHANGED <<utterances, speech_frames>>

\* stop, speech_recognizer_with_vad.py:83-86, called by c: the guard
Stop(c) ==
    /\ callPc[c] = "idle"
    /\ IF ~SegAlive(processing_thread)
       THEN UNCHANGED <<callPc, stopPending>>
       ELSE /\ callPc' = [callPc EXCEPT ![c] = "stop_set"]
            /\ stopPending' = [stopPending EXCEPT ![c] =
                                 IF current_state = "SPEECH" THEN speech_frames ELSE <<>>]
    /\ UNCHANGED <<config, rec_stop_event, processing_thread, is_speaking, silence_frames,
                   speech_frames, smoothed_energy, current_state, silent_frames_count,
                   segPc, held, segment, utterances, joined, processed, audio_queue,
                   nextFrame>>
    /\ UNCHANGED <<captureOnlyVars, monoVars, recognizeVars, normVars, nsVars>>

\* stop, speech_recognizer_with_vad.py:87-88: stop_event.set(), then
\* self.processing_thread.join is looked up; on None the lookup raises
\* AttributeError and stop() ends with it
StopSignal(c) ==
    /\ callPc[c] = "stop_set"
    /\ rec_stop_event' = TRUE
    /\ IF processing_thread = 0
       THEN /\ callPc' = [callPc EXCEPT ![c] = "raised"]
            /\ UNCHANGED joined
       ELSE /\ callPc' = [callPc EXCEPT ![c] = "stop_join"]
            /\ joined' = [joined EXCEPT ![c] = processing_thread]
    /\ UNCHANGED <<config, processing_thread, is_speaking, silence_frames, speech_frames,
                   smoothed_energy, current_state, silent_frames_count, segPc, held,
                   segment, utterances, stopPending, processed, audio_queue, nextFrame>>
    /\ UNCHANGED <<captureOnlyVars, monoVars, recognizeVars, normVars, nsVars>>

\* stop, speech_recognizer_with_vad.py:88-96: join(timeout=2) returns, the flush of
\* what is left, processing_thread = None.  timedOut: the thread is still alive.
StopFinish(c, timedOut) ==
    /\ callPc[c] = "stop_join"
    /\ timedOut = SegAlive(joined[c])
    /\ IF is_speaking /\ speech_frames # <<>>
       THEN TriggerRecognition
       ELSE UNCHANGED <<utterances, speech_frames>>
    /\ processing_thread' = 0
    /\ callPc' = [callPc EXCEPT ![c] = "idle"]
    /\ joined' = [joined EXCEPT ![c] = 0]
    /\ stopPending' = [stopPending EXCEPT ![c] = <<>>]
    /\ UNCHANGED <<config, rec_stop_event, is_speaking, silence_frames, smoothed_energy,
                   current_state, silent_frames_count, segPc, held, segment, processed,
                   audio_queue, nextFrame>>
    /\ UNCHANGED <<captureOnlyVars, monoVars, recognizeVars, normVars, nsVars>>

\* _process_audio_queue, line 156: while not self.stop_event.is_set()
SegCheck(t) ==
    /\ segPc[t] = "check"
    /\ segPc' = [segPc EXCEPT ![t] = IF rec_stop_event THEN "done" ELSE "get"]
    /\ UNCHANGED <<config, rec_stop_event, processing_thread, is_speaking, silence_frames,
                   speech_frames, smoothed_energy, current_state, silent_frames_count,
                   held, segment, utterances, callPc, joined, stopPending, processed,
                   audio_queue, nextFrame>>
    /\ UNCHANGED <<captureOnlyVars, monoVars, recognizeVars, normVars, nsVars>>

\* _process_audio_queue, line 158: data = self.audio_queue.get(timeout=0.1)
\* returned a frame
SegGet(t) ==
    /\ segPc[t] = "get"
    /\ audio_queue # <<>>
    /\ audio_queue' = Tail(audio_queue)
    /\ held' = [held EXCEPT ![t] = Head(audio_queue)]
    /\ segPc' = [segPc EXCEPT ![t] = "frame"]
    /\ UNCHANGED <<config, rec_stop_event, processing_thread, is_speaking, silence_frames,
                   speech_frames, smoothed_energy, current_state, silent_frames_count,
                   segment, utterances, callPc, joined, stopPending, processed,
                   nextFrame>>
    /\ UNCHANGED <<captureOnlyVars, monoVars, recognizeVars, normVars, nsVars>>

\* _process_audio_queue, line 161 -- the guard as the state machine would have it
CountsAsSilence_midUtterance == current_state = "SPEECH"

\* _process_audio_queue, line 161: if self.is_speaking
CountsAsSilence == is_speaking

\* _process_audio_queue, lines 160-168: get(timeout=0.1) raised queue.Empty and
\* the handler has run up to its continue
SegTimeout(t) ==
    /\ segPc[t] = "get"
    /\ audio_queue = <<>>
    /\ segPc' = [segPc EXCEPT ![t] = "continue"]
    /\ IF CountsAsSilence
       THEN LET missed == silence_frames + (QueueGetTimeout \div config.chunk_duration)
            IN  IF missed > silence_threshold_frames
                THEN /\ TriggerRecognition
                     /\ is_speaking' = FALSE
                     /\ silence_frames' = 0
                ELSE /\ silence_frames' = missed
                     /\ UNCHANGED <<is_speaking, utterances, speech_frames>>
       ELSE UNCHANGED <<is_speaking, silence_frames, utterances, speech_frames>>
    /\ UNCHANGED <<config, rec_stop_event, processing_thread, smoothed_energy,
                   current_state, silent_frames_count, held, segment, callPc, joined,
                   stopPending, processed, audio_queue, nextFrame>>
    /\ UNCHANGED <<captureOnlyVars, monoVars, recognizeVars, normVars, nsVars>>

\* _process_audio_queue, line 169: continue, back to the test of the loop
SegContinue(t) ==
    /\ segPc[t] = "continue"
    /\ segPc' = [segPc EXCEPT ![t] = "check"]
    /\ UNCHANGED <<config, rec_stop_event, processing_thread, is_speaking, silence_frames,
                   speech_frames, smoothed_energy, current_state, silent_frames_count,
                   held, segment, utterances, callPc, joined, stopPending, processed,
                   audio_queue, nextFrame>>
    /\ UNCHANGED <<captureOnlyVars, monoVars, recognizeVars, normVars, nsVars>>

\* _process_audio_frame, speech_recognizer_with_vad.py:130-141 and 148-149, run by
\* thread t on the frame it dequeued: classification, transition into SPEECH,
\* buffering, counting, and the decision to flush
ProcessAudioFrame(t) ==
    LET f == held[t]
        smoothed == SmoothedEnergy(smoothed_energy, f.e)
        is_speech == IsSpeech(smoothed, config.speech_threshold)
        count == IF current_state = "SPEECH"
                 THEN SilentCountAfter(silent_frames_count, is_speech)
                 ELSE IF is_speech THEN 0 ELSE silent_frames_count
    IN  /\ segPc[t] = "frame"
        /\ held' = [held EXCEPT ![t] = NoFrame]
        /\ smoothed_energy' = smoothed
        /\ processed' = Append(processed, [id |-> f.id, speech |-> is_speech,
                                           state |-> current_state])
        /\ current_state' = StateAfter(current_state, is_speech)
        /\ speech_frames' = BufferAfter(current_state, speech_frames, f, is_speech)
        /\ silent_frames_count' = count
        /\ segPc' = [segPc EXCEPT ![t] =
                       IF current_state = "SPEECH" /\ ~is_speech /\ FlushDue(count)
                       THEN "flush" ELSE "check"]
        /\ UNCHANGED <<config, rec_stop_event, processing_thread, is_speaking,
                       silence_frames, segment, utterances, callPc, joined, stopPending,
                       audio_queue, nextFrame>>
        /\ UNCHANGED <<captureOnlyVars, monoVars, recognizeVars, normVars, nsVars>>

\* _process_audio_frame, lines 142-144: current_state = "SILENCE" and
\* speech_segment = np.concatenate(self.speech_frames); np.concatenate raises
\* ValueError on an empty list, and _process_audio_queue catches queue.Empty only,
\* so the thread ends with the exception
ConcatenateSegment(t) ==
    /\ segPc[t] = "flush"
    /\ current_state' = "SILENCE"
    /\ IF speech_frames = <<>>
       THEN /\ segPc' = [segPc EXCEPT ![t] = "raised"]
            /\ UNCHANGED segment
       ELSE /\ segPc' = [segPc EXCEPT ![t] = "clear"]
            /\ segment' = [segment EXCEPT ![t] = speech_frames]
    /\ UNCHANGED <<config, rec_stop_event, processing_thread, is_speaking, silence_frames,
                   speech_frames, smoothed_energy, silent_frames_count, held, utterances,
                   callPc, joined, stopPending, processed, audio_queue, nextFrame>>
    /\ UNCHANGED <<captureOnlyVars, monoVars, recognizeVars, normVars, nsVars>>

\* _process_audio_frame, lines 145-147: the buffer is cleared, the counter reset and
\* recognize_audio_chunk(speech_segment) called inside the thread
RecognizeSegment(t) ==
    /\ segPc[t] = "clear"
    /\ speech_frames' = <<>>
    /\ silent_frames_count' = 0
    /\ utterances' = Append(utterances, Utterance(segment[t], t))
    /\ segment' = [segment EXCEPT ![t] = <<>>]
    /\ segPc' = [segPc EXCEPT ![t] =
                   IF AnySample(segment[t]) THEN "recognize" ELSE "check"]
    /\ UNCHANGED <<config, rec_stop_event, processing_thread, is_speaking, silence_frames,
                   smoothed_energy, current_state, held, callPc, joined, stopPending,
                   processed, audio_queue, nextFrame>>
    /\ UNCHANGED <<captureOnlyVars, monoVars, recognizeVars, normVars, nsVars>>

\* the utterance thread t is recognizing
JobOf(t) ==
    CHOOSE i \in DOMAIN utterances :
        utterances[i].runner = t /\ utterances[i].st = "inflight"

\* recognize_audio_chunk, speech_recognizer_with_vad.py:186-246, returns in thread t
\* with one of Outcomes; its try block lets no exception out
RecognizeReturn(t, outcome) ==
    /\ segPc[t] = "recognize"
    /\ utterances' = [utterances EXCEPT ![JobOf(t)].st = outcome]
    /\ segPc' = [segPc EXCEPT ![t] = "check"]
    /\ UNCHANGED <<config, rec_stop_event, processing_thread, is_speaking, silence_frames,
                   speech_frames, smoothed_energy, current_state, silent_frames_count,
                   held, segment, callPc, joined, stopPending, processed, audio_queue,
                   nextFrame>>
    /\ UNCHANGED <<captureOnlyVars, monoVars, recognizeVars, normVars, nsVars>>

\* the capture callback puts a frame of energy e into the queue start() was given,
\* audio_capture.py:170-172
FrameDelivered(e) ==
    /\ nextFrame <= MaxVadFrames
    /\ nextFrame' = nextFrame + 1
    /\ audio_queue' = PutNowaitOrDrop(audio_queue, Frame(nextFrame, e))
    /\ UNCHANGED <<vadVars, captureOnlyVars, monoVars, recognizeVars, normVars, nsVars>>

\* the capture callback puts the next frame of ScenarioInput into the queue, which
\* has room for it, audio_capture.py:170
ScenarioFrame ==
    /\ nextFrame <= Len(ScenarioInput)
    /\ ~QueueFull(audio_queue)
    /\ nextFrame' = nextFrame + 1
    /\ audio_queue' = Append(audio_queue, Frame(nextFrame, ScenarioInput[nextFrame]))
    /\ UNCHANGED <<vadVars, captureOnlyVars, monoVars, recognizeVars, normVars, nsVars>>

\* one thread calls start() and stop()
NextVAD ==
    \/ Start(1)
    \/ Stop(1)
    \/ StopSignal(1)
    \/ \E timedOut \in BOOLEAN : StopFinish(1, timedOut)
    \/ \E t \in SegThreads : SegCheck(t)
    \/ \E t \in SegThreads : SegGet(t)
    \/ \E t \in SegThreads : SegTimeout(t)
    \/ \E t \in SegThreads : SegContinue(t)
    \/ \E t \in SegThreads : ProcessAudioFrame(t)
    \/ \E t \in SegThreads : ConcatenateSegment(t)
    \/ \E t \in SegThreads : RecognizeSegment(t)
    \/ \E t \in SegThreads, outcome \in Outcomes : RecognizeReturn(t, outcome)
    \/ \E e \in Energies : FrameDelivered(e)

\* several threads call start() and stop() of a recognizer whose queue stays empty
NextCallers ==
    \/ \E c \in Callers : Start(c)
    \/ \E c \in Callers : Stop(c)
    \/ \E c \in Callers : StopSignal(c)
    \/ \E c \in Callers, timedOut \in BOOLEAN : StopFinish(c, timedOut)
    \/ \E t \in SegThreads : SegCheck(t)
    \/ \E t \in SegThreads : SegTimeout(t)
    \/ \E t \in SegThreads : SegContinue(t)

\* the capture callback puts the next frame of StallInput into the queue, which
\* has room for it, audio_capture.py:170; after the last one the capture stalls
StallFrame ==
    /\ nextFrame <= Len(StallInput)
    /\ ~QueueFull(audio_queue)
    /\ nextFrame' = nextFrame + 1
    /\ audio_queue' = Append(audio_queue, Frame(nextFrame, StallInput[nextFrame]))
    /\ UNCHANGED <<vadVars, captureOnlyVars, monoVars, recognizeVars, normVars, nsVars>>

\* one thread calls start() and stop() of the recognizer as constructed, which is
\* fed StallInput
NextStall ==
    \/ Start(1)
    \/ Stop(1)
    \/ StopSignal(1)
    \/ \E timedOut \in BOOLEAN : StopFinish(1, timedOut)
    \/ \E t \in SegThreads : SegCheck(t)
    \/ \E t \in SegThreads : SegGet(t)
    \/ \E t \in SegThreads : SegTimeout(t)
    \/ \E t \in SegThreads : SegContinue(t)
    \/ \E t \in SegThreads : ProcessAudioFrame(t)
    \/ \E t \in SegThreads : ConcatenateSegment(t)
    \/ \E t \in SegThreads : RecognizeSegment(t)
    \/ \E t \in SegThreads, outcome \in Outcomes : RecognizeReturn(t, outcome)
    \/ StallFrame

\* a step of segmentation thread t, _process_audio_queue (lines 151-169) with what
\* it calls
SegStep(t) ==
    \/ SegCheck(t)
    \/ SegGet(t)
    \/ SegTimeout(t)
    \/ SegContinue(t)
    \/ ProcessAudioFrame(t)
    \/ ConcatenateSegment(t)
    \/ RecognizeSegment(t)
    \/ \E outcome \in Outcomes : RecognizeReturn(t, outcome)

\* the recognizer of ScenarioConfig, started once and fed ScenarioInput
NextScenario ==
    \/ \E c \in Callers : Start(c)
    \/ \E t \in SegThreads : SegCheck(t)
    \/ \E t \in SegThreads : SegGet(t)
    \/ \E t \in SegThreads : SegTimeout(t)
    \/ \E t \in SegThreads : SegContinue(t)
    \/ \E t \in SegThreads : ProcessAudioFrame(t)
    \/ ScenarioFrame

----------------------------------------------------------------------------
(* _is_speech on one frame sequence under two thresholds *)

InitMono ==
    /\ monoT1 \in Thresholds
    /\ monoT2 \in Thresholds
    /\ monoT1 <= monoT2
    /\ monoS1 = 0
    /\ monoS2 = 0
    /\ monoD1 = <<>>
    /\ monoD2 = <<>>

InitMonoIdle ==
    /\ monoT1 = speech_threshold
    /\ monoT2 = speech_threshold
    /\ monoS1 = 0
    /\ monoS2 = 0
    /\ monoD1 = <<>>
    /\ monoD2 = <<>>

\* _is_speech, speech_recognizer_with_vad.py:111-124, on the next frame of the
\* sequence, once with each threshold
MonoFrame(e) ==
    /\ Len(monoD1) < MaxMonoFrames
    /\ monoS1' = SmoothedEnergy(monoS1, e)
    /\ monoS2' = SmoothedEnergy(monoS2, e)
    /\ monoD1' = Append(monoD1, IsSpeech(monoS1', monoT1))
    /\ monoD2' = Append(monoD2, IsSpeech(monoS2', monoT2))
    /\ UNCHANGED <<monoT1, monoT2, captureVars, vadVars, recognizeVars, normVars, nsVars>>

NextMono == \E e \in Energies : MonoFrame(e)

----------------------------------------------------------------------------
(* recognize_audio_chunk and its scratch files, in both recognizers *)

\* the two classes with a recognize_audio_chunk that goes through temp_files_dir
Recognizers == {"with_vad", "non_stream"}

\* os.path.join(self.temp_files_dir, f"audio_chunk_{timestamp}.wav") and the
\* transcript "<wav path>.txt" the engine writes under -otxt
WavPath(cls, stamp) == [cls |-> cls, stamp |-> stamp, ext |-> "wav"]
TxtPath(cls, stamp) == [cls |-> cls, stamp |-> stamp, ext |-> "wav.txt"]

NoTask == [cls |-> "none", pc |-> "unborn", stamp |-> 0]

InitRecognize(keep) ==
    /\ keep_temp_files = keep
    /\ temp_files = {}
    /\ clock = 0
    /\ tasks = [k \in Tasks |-> NoTask]

TasksCalled == {k \in Tasks : tasks[k].pc # "unborn"}
NewTask == Cardinality(TasksCalled) + 1
\* the paths of task k
WavOf(k) == WavPath(tasks[k].cls, tasks[k].stamp)
TxtOf(k) == TxtPath(tasks[k].cls, tasks[k].stamp)

\* time.time() moves on
Tick ==
    /\ clock < MaxClock
    /\ clock' = clock + 1
    /\ UNCHANGED <<keep_temp_files, temp_files, tasks>>
    /\ UNCHANGED <<captureVars, vadVars, monoVars, normVars, nsVars>>

\* recognize_audio_chunk is entered and names its files after the time:
\* speech_recognizer_with_vad.py:186-189, speech_recognizer_non_stream.py:108-110
RecognizeAudioChunk(cls) ==
    /\ NewTask \in Tasks
    /\ tasks' = [tasks EXCEPT ![NewTask] = [cls |-> cls, pc |-> "write", stamp |-> clock]]
    /\ UNCHANGED <<keep_temp_files, temp_files, clock>>
    /\ UNCHANGED <<captureVars, vadVars, monoVars, normVars, nsVars>>

\* sf.write(wav_path, ...), with_vad:200, non_stream:114.  ok: the file is written;
\* otherwise the call raises, having created the file (left) or not
WriteWav(k, ok, left) ==
    /\ tasks[k].pc = "write"
    /\ ok => left
    /\ temp_files' = IF left THEN temp_files \cup {WavOf(k)} ELSE temp_files
    /\ tasks' = [tasks EXCEPT ![k].pc = IF ok THEN "engine" ELSE "finally"]
    /\ UNCHANGED <<keep_temp_files, clock>>
    /\ UNCHANGED <<captureVars, vadVars, monoVars, normVars, nsVars>>

\* subprocess.run([main.exe, ..., "-f", wav_path, ..., "-otxt"]), with_vad:212-235,
\* non_stream:126-145.  transcribed: the engine read the WAV file and wrote its
\* transcript beside it; otherwise it failed or the call raised
RunEngine(k, transcribed) ==
    /\ tasks[k].pc = "engine"
    /\ transcribed => WavOf(k) \in temp_files
    /\ temp_files' = IF transcribed THEN temp_files \cup {TxtOf(k)} ELSE temp_files
    /\ tasks' = [tasks EXCEPT ![k].pc = "finally"]
    /\ UNCHANGED <<keep_temp_files, clock>>
    /\ UNCHANGED <<captureVars, vadVars, monoVars, normVars, nsVars>>

\* what the finally block of task k tries to remove: with_vad:239-246 the WAV file
\* and the transcript, non_stream:149-154 the WAV file unless keep_temp_files
Removes(k) ==
    IF tasks[k].cls = "with_vad"
    THEN {WavOf(k), TxtOf(k)}
    ELSE IF keep_temp_files THEN {} ELSE {WavOf(k)}

\* the finally block of recognize_audio_chunk.  removed: os.remove succeeded;
\* otherwise it raised OSError, which is printed
Finally(k, removed) ==
    /\ tasks[k].pc = "finally"
    /\ temp_files' = IF removed THEN temp_files \ Removes(k) ELSE temp_files
    /\ tasks' = [tasks EXCEPT ![k].pc = "done"]
    /\ UNCHANGED <<keep_temp_files, clock>>
    /\ UNCHANGED <<captureVars, vadVars, monoVars, normVars, nsVars>>

NextRecognize ==
    \/ Tick
    \/ \E cls \in Recognizers : RecognizeAudioChunk(cls)
    \/ \E k \in Tasks, ok \in BOOLEAN, left \in BOOLEAN : WriteWav(k, ok, left)
    \/ \E k \in Tasks, transcribed \in BOOLEAN : RunEngine(k, transcribed)
    \/ \E k \in Tasks, removed \in BOOLEAN : Finally(k, removed)

----------------------------------------------------------------------------
(* The capture callbacks: what they make of a native block *)

\* AudioCapture.__init__, audio_capture.py:11-13: sample_rate = 16000, in kHz, and
\* channels = 1, as every AudioCapture() of the application is constructed
ac_sample_rate == 16
ac_channels == 1

\* device_info['maxInputChannels'] and int(device_info['defaultSampleRate']), in
\* kHz, of the loopback devices
NativeChannels == {1, 2}
NativeRates == {16, 48}
\* values of an int16 sample
Samples == {-2, 1, 4}
\* sample-frames per callback where the samples are spelled out
SmallBlocks == {1, 2}
\* sample-frames per callback of a real backend: PyAudio's default buffer, and the
\* two sizes that last chunk_duration at the native rates
BlockSizes == {1024, 1600, 4800}

\* an array of samples: its values, its channel count and the rate they were
\* sampled at
Array(data, c, r) == [data |-> data, channels |-> c, rate |-> r]

\* pyaudio_instance.open(format=paInt16, channels=channels,
\* rate=original_sample_rate, ...), audio_capture.py:177-184; n is the frame_count
\* the backend passes to the callback
SysStream(c, r, n) == [kind |-> "sys", channels |-> c, rate |-> r, frame_count |-> n]
\* sd.InputStream(channels=self.channels, samplerate=self.sample_rate, ...),
\* audio_capture.py:94-99
MicStream(n) ==
    [kind |-> "mic", channels |-> ac_channels, rate |-> ac_sample_rate, frame_count |-> n]
NoStream == [kind |-> "none", channels |-> 0, rate |-> 0, frame_count |-> 0]

NoBlock == [in_data |-> <<>>, mono_audio |-> <<>>, resampled_audio |-> <<>>]

\* the streams whose blocks are spelled out sample by sample
SmallStreams ==
    {SysStream(c, r, n) : c \in NativeChannels, r \in NativeRates, n \in SmallBlocks}
        \cup {MicStream(n) : n \in SmallBlocks}
\* the streams of a real backend
BlockStreams ==
    {SysStream(c, r, n) : c \in NativeChannels, r \in NativeRates, n \in BlockSizes}
        \cup {MicStream(n) : n \in BlockSizes}

\* a float32 value, kept exact as a fraction
Float(num, den) == [num |-> num, den |-> den]
\* audio_data_int16.astype(np.float32) / 32768.0, audio_capture.py:133
ToFloat(v) == Float(v, 32768)

RECURSIVE SumNum(_)
SumNum(vals) == IF vals = <<>> THEN 0 ELSE vals[1].num + SumNum(Tail(vals))
\* the mean of float values of one denominator
Mean(vals) == Float(SumNum(vals), vals[1].den * Len(vals))

\* reshape(num_channels, -1).mean(axis=0): the block read as one run per channel
Downmix_planar(a, c) ==
    IF c > 1
    THEN LET n == Len(a.data) \div c
         IN  Array([i \in 1..n |-> Mean([k \in 1..c |-> a.data[(k - 1) * n + i]])],
                   1, a.rate)
    ELSE a

\* audio_capture.py:136-144: reshape(-1, num_channels).mean(axis=1), one value per
\* sample-frame, when num_channels > 1; otherwise the block itself
Downmix(a, c) ==
    IF c > 1
    THEN Array([i \in 1..(Len(a.data) \div c) |->
                   Mean(SubSeq(a.data, (i - 1) * c + 1, i * c))],
               1, a.rate)
    ELSE a

CeilDiv(a, b) == (a + b - 1) \div b

\* librosa.resample(y, orig_sr, target_sr) -- leaves the rate as it was
Resample_sameRate(y, orig_sr, target_sr) ==
    Array([resampled |-> y.data, n |-> CeilDiv(Len(y.data) * target_sr, orig_sr)],
          y.channels, orig_sr)

\* librosa.resample(y, orig_sr, target_sr), audio_capture.py:151-155:
\* ceil(n * target_sr / orig_sr) samples at target_sr, whose values the filter of
\* the library determines from y
Resample(y, orig_sr, target_sr) ==
    Array([resampled |-> y.data, n |-> CeilDiv(Len(y.data) * target_sr, orig_sr)],
          y.channels, target_sr)

\* audio_capture.py:130-144: the block as floats, then as one channel;
\* num_channels is the channel count the stream was opened with
MonoAudio(in_data, s) ==
    Downmix(Array([i \in DOMAIN in_data |-> ToFloat(in_data[i])], s.channels, s.rate),
            s.channels)

\* audio_capture.py:147-168
ResampledAudio(mono_audio, s) ==
    IF s.rate # ac_sample_rate
    THEN Resample(mono_audio, s.rate, ac_sample_rate)
    ELSE mono_audio

\* self.capture_sample_rate = self.sample_rate, audio_capture.py:188
CaptureSampleRate(s) == ac_sample_rate

InitNormalizer(s) ==
    /\ stream = s
    /\ norm = NoBlock
    /\ reported = 0

\* start_microphone_capture returns self.sample_rate (audio_capture.py:67),
\* start_system_audio_capture self.capture_sample_rate (line 83)
StartReturns ==
    /\ reported = 0
    /\ reported' = IF stream.kind = "mic" THEN ac_sample_rate
                                          ELSE CaptureSampleRate(stream)
    /\ UNCHANGED <<stream, norm>>
    /\ UNCHANGED <<captureVars, vadVars, monoVars, recognizeVars, nsVars>>

\* _capture_system_audio.callback, audio_capture.py:127-175, on the block in_data
SysNormalize(in_data) ==
    /\ stream.kind = "sys"
    /\ nextFrame <= MaxBlocks
    /\ LET mono_audio == MonoAudio(in_data, stream)
           resampled_audio == ResampledAudio(mono_audio, stream)
       IN  /\ norm' = [in_data |-> in_data, mono_audio |-> mono_audio.data,
                       resampled_audio |-> resampled_audio]
           /\ audio_queue' = PutNowaitOrDrop(audio_queue, resampled_audio)
    /\ nextFrame' = nextFrame + 1
    /\ UNCHANGED <<stream, reported>>
    /\ UNCHANGED <<captureOnlyVars, vadVars, monoVars, recognizeVars, nsVars>>

\* _capture_microphone.callback, audio_capture.py:88-92, on the block indata, which
\* sounddevice delivers as floats in the format the stream was opened with; the
\* put waits for room in the queue
MicNormalize(indata) ==
    /\ stream.kind = "mic"
    /\ nextFrame <= MaxBlocks
    /\ ~ac_stop_event
    /\ ~QueueFull(audio_queue)
    /\ LET copy == Array([i \in DOMAIN indata |-> ToFloat(indata[i])],
                         stream.channels, stream.rate)
       IN  /\ norm' = [in_data |-> indata, mono_audio |-> <<>>, resampled_audio |-> copy]
           /\ audio_queue' = Append(audio_queue, copy)
    /\ nextFrame' = nextFrame + 1
    /\ UNCHANGED <<stream, reported>>
    /\ UNCHANGED <<captureOnlyVars, vadVars, monoVars, recognizeVars, nsVars>>

\* the blocks a stream can hand to its callback
NativeBlocks == [1..(stream.frame_count * stream.channels) -> Samples]

\* one capture session of either kind, its callback and a consumer of the queue
NextNormalize ==
    \/ StartReturns
    \/ \E in_data \in NativeBlocks : SysNormalize(in_data)
    \/ \E indata \in NativeBlocks : MicNormalize(indata)
    \/ GetAudioData

----------------------------------------------------------------------------
(* The length of the frames the segmentation thread consumes *)

\* samples of a frame as the callback enqueues it: the block of frame_count
\* sample-frames, resampled when the rates differ (audio_capture.py:147-170);
\* _process_audio_queue hands it to _process_audio_frame as it is
\* (speech_recognizer_with_vad.py:158-159)
FrameSamples(s) ==
    IF s.rate # ac_sample_rate
    THEN CeilDiv(s.frame_count * ac_sample_rate, s.rate)
    ELSE s.frame_count

\* what a frame lasts, in ms
FrameDuration(s) == FrameSamples(s) \div ac_sample_rate

\* the callback of the session's stream puts the next frame of StallInput into the
\* queue, which has room for it
BlockFrame ==
    /\ stream.kind # "none"
    /\ nextFrame <= Len(StallInput)
    /\ ~QueueFull(audio_queue)
    /\ nextFrame' = nextFrame + 1
    /\ audio_queue' = Append(audio_queue, Frame(nextFrame, StallInput[nextFrame]))
    /\ UNCHANGED <<vadVars, captureOnlyVars, monoVars, recognizeVars, normVars, nsVars>>

\* the recognizer as constructed, started once and fed StallInput by the callback
\* of one capture session
NextBlocks ==
    \/ Start(1)
    \/ \E t \in SegThreads : SegCheck(t)
    \/ \E t \in SegThreads : SegGet(t)
    \/ \E t \in SegThreads : SegTimeout(t)
    \/ \E t \in SegThreads : SegContinue(t)
    \/ \E t \in SegThreads : ProcessAudioFrame(t)
    \/ \E t \in SegThreads : ConcatenateSegment(t)
    \/ \E t \in SegThreads : RecognizeSegment(t)
    \/ \E t \in SegThreads, outcome \in Outcomes : RecognizeReturn(t, outcome)
    \/ BlockFrame

----------------------------------------------------------------------------
(* SpeechRecognizer, the non-stream recognizer *)

NsThreads == 1..MaxNsThreads

\* int(self.buffer_duration_seconds * self.sample_rate), line 77, in units of the
\* length of one chunk: 5 s worth of samples, scaled down
buffer_size_frames == 2

\* sum(len(c) for c in self.audio_buffer), line 86, in the same unit
BufferedSamples(buffer) == Len(buffer)

\* line 87 -- cuts one chunk late
BlockDue_late(buffer) == BufferedSamples(buffer) > buffer_size_frames

\* line 87: the buffer holds enough for a block
BlockDue(buffer) == BufferedSamples(buffer) >= buffer_size_frames

\* np.concatenate(self.audio_buffer), lines 89 and 101: the samples of the chunks in
\* buffer order, kept as the ids of the chunks
NpConcatenate(buffer) == [k \in DOMAIN buffer |-> buffer[k].id]

\* a call recognize_audio_chunk(audio_block): from the loop, in a thread of its own
\* (line 95), or after the loop, in the processing thread (line 102)
Block(audio_block, final) == [chunks |-> audio_block, final |-> final]

InitNonStream ==
    /\ ns_stop_event = FALSE
    /\ ns_processing_thread = 0
    /\ audio_buffer = <<>>
    /\ nsPc = [t \in NsThreads |-> "unborn"]
    /\ nsCallPc = "idle"
    /\ recognized = <<>>
    /\ dequeued = <<>>

NsThreadsCreated == {t \in NsThreads : nsPc[t] # "unborn"}
NewNsThread == Cardinality(NsThreadsCreated) + 1
NsAlive(t) == t # 0 /\ nsPc[t] \notin {"unborn", "done"}

\* start, speech_recognizer_non_stream.py:36-48
NsStart ==
    /\ nsCallPc = "idle"
    /\ IF NsAlive(ns_processing_thread)
       THEN UNCHANGED <<ns_stop_event, ns_processing_thread, audio_buffer, nsPc>>
       ELSE /\ NewNsThread \in NsThreads
            /\ ns_stop_event' = FALSE
            /\ audio_buffer' = <<>>
            /\ ns_processing_thread' = NewNsThread
            /\ nsPc' = [nsPc EXCEPT ![NewNsThread] = "check"]
    /\ UNCHANGED <<nsCallPc, recognized, dequeued>>
    /\ UNCHANGED <<captureVars, vadVars, monoVars, recognizeVars, normVars>>

\* stop, speech_recognizer_non_stream.py:50-55: the guard and stop_event.set()
NsStop ==
    /\ nsCallPc = "idle"
    /\ IF NsAlive(ns_processing_thread)
       THEN /\ ns_stop_event' = TRUE
            /\ nsCallPc' = "stop_join"
       ELSE UNCHANGED <<ns_stop_event, nsCallPc>>
    /\ UNCHANGED <<ns_processing_thread, audio_buffer, nsPc, recognized, dequeued>>
    /\ UNCHANGED <<captureVars, vadVars, monoVars, recognizeVars, normVars>>

\* stop, speech_recognizer_non_stream.py:55-66: join(timeout=2) returns, the field
\* is set to None and the queue is emptied.  timedOut: the thread is still alive,
\* which takes a thread that is inside the recognize_audio_chunk of line 102, since
\* its loop waits no longer than 0.1 s
NsStopFinish(timedOut) ==
    /\ nsCallPc = "stop_join"
    /\ timedOut = NsAlive(ns_processing_thread)
    /\ timedOut => nsPc[ns_processing_thread] = "recognize"
    /\ ns_processing_thread' = 0
    /\ audio_queue' = <<>>
    /\ nsCallPc' = "idle"
    /\ UNCHANGED <<ns_stop_event, audio_buffer, nsPc, recognized, dequeued>>
    /\ UNCHANGED <<captureOnlyVars, nextFrame, vadVars, monoVars, recognizeVars, normVars>>

\* _process_audio_queue, line 79: while not self.stop_event.is_set()
NsCheck(t) ==
    /\ nsPc[t] = "check"
    /\ nsPc' = [nsPc EXCEPT ![t] = IF ns_stop_event THEN "final" ELSE "get"]
    /\ UNCHANGED <<ns_stop_event, ns_processing_thread, audio_buffer, nsCallPc,
                   recognized, dequeued>>
    /\ UNCHANGED <<captureVars, vadVars, monoVars, recognizeVars, normVars>>

\* _process_audio_queue, lines 81-95: get returns a chunk, which is appended; when
\* the buffer holds enough, it is concatenated, emptied and the block handed to
\* recognize_audio_chunk in a new thread
NsChunk(t) ==
    /\ nsPc[t] = "get"
    /\ audio_queue # <<>>
    /\ audio_queue' = Tail(audio_queue)
    /\ dequeued' = Append(dequeued, Head(audio_queue).id)
    /\ LET buffer == Append(audio_buffer, Head(audio_queue))
       IN  IF BlockDue(buffer)
           THEN /\ recognized' = Append(recognized, Block(NpConcatenate(buffer), FALSE))
                /\ audio_buffer' = <<>>
           ELSE /\ audio_buffer' = buffer
                /\ UNCHANGED recognized
    /\ nsPc' = [nsPc EXCEPT ![t] = "check"]
    /\ UNCHANGED <<ns_stop_event, ns_processing_thread, nsCallPc>>
    /\ UNCHANGED <<captureOnlyVars, nextFrame, vadVars, monoVars, recognizeVars, normVars>>

\* _process_audio_queue, lines 97-98: get(timeout=0.1) raises queue.Empty
NsTimeout(t) ==
    /\ nsPc[t] = "get"
    /\ audio_queue = <<>>
    /\ nsPc' = [nsPc EXCEPT ![t] = "check"]
    /\ UNCHANGED <<ns_stop_event, ns_processing_thread, audio_buffer, nsCallPc,
                   recognized, dequeued>>
    /\ UNCHANGED <<captureVars, vadVars, monoVars, recognizeVars, normVars>>

\* _process_audio_queue, lines 100-103: what is left in the buffer is concatenated
\* and recognize_audio_chunk called on it inside the thread
NsFinal(t) ==
    /\ nsPc[t] = "final"
    /\ IF audio_buffer # <<>>
       THEN /\ recognized' = Append(recognized, Block(NpConcatenate(audio_buffer), TRUE))
            /\ nsPc' = [nsPc EXCEPT ![t] = "recognize"]
       ELSE /\ nsPc' = [nsPc EXCEPT ![t] = "done"]
            /\ UNCHANGED recognized
    /\ UNCHANGED <<ns_stop_event, ns_processing_thread, audio_buffer, nsCallPc, dequeued>>
    /\ UNCHANGED <<captureVars, vadVars, monoVars, recognizeVars, normVars>>

\* the recognize_audio_chunk of line 102 returns and the thread ends, line 104
NsRecognizeReturn(t) ==
    /\ nsPc[t] = "recognize"
    /\ nsPc' = [nsPc EXCEPT ![t] = "done"]
    /\ UNCHANGED <<ns_stop_event, ns_processing_thread, audio_buffer, nsCallPc,
                   recognized, dequeued>>
    /\ UNCHANGED <<captureVars, vadVars, monoVars, recognizeVars, normVars>>

\* one SpeechRecognizer, the thread calling its start() and stop(), its
\* processing threads and a producer of chunks
NextNonStream ==
    \/ NsStart
    \/ NsStop
    \/ \E timedOut \in BOOLEAN : NsStopFinish(timedOut)
    \/ \E t \in NsThreads : NsCheck(t)
    \/ \E t \in NsThreads : NsChunk(t)
    \/ \E t \in NsThreads : NsTimeout(t)
    \/ \E t \in NsThreads : NsFinal(t)
    \/ \E t \in NsThreads : NsRecognizeReturn(t)
    \/ \E e \in Energies : FrameDelivered(e)

----------------------------------------------------------------------------
(* Specifications *)

\* the objects as constructed
Init ==
    /\ InitCapture /\ InitVAD /\ InitMonoIdle /\ InitRecognize(FALSE)
    /\ InitNormalizer(NoStream) /\ InitNonStream

\* the same, with the two thresholds of the comparison drawn from Thresholds
InitTwoThresholds ==
    /\ InitCapture /\ InitVAD /\ InitMono /\ InitRecognize(FALSE)
    /\ InitNormalizer(NoStream) /\ InitNonStream

\* the same, the recognizer constructed with ScenarioConfig
InitScenario ==
    /\ InitCapture /\ InitVADWith(ScenarioConfig) /\ InitMonoIdle /\ InitRecognize(FALSE)
    /\ InitNormalizer(NoStream) /\ InitNonStream

\* the same, the non-stream recognizer constructed with either keep_temp_files
InitKeepOrNot ==
    \E keep \in BOOLEAN :
        /\ InitCapture /\ InitVAD /\ InitMonoIdle /\ InitRecognize(keep)
        /\ InitNormalizer(NoStream) /\ InitNonStream

\* the same, with a capture session on a stream whose blocks are spelled out
InitSmallStream ==
    \E s \in SmallStreams :
        /\ InitCapture /\ InitVAD /\ InitMonoIdle /\ InitRecognize(FALSE)
        /\ InitNormalizer(s) /\ InitNonStream

\* the same, with a capture session on a stream of a real backend
InitBlockStream ==
    \E s \in BlockStreams :
        /\ InitCapture /\ InitVAD /\ InitMonoIdle /\ InitRecognize(FALSE)
        /\ InitNormalizer(s) /\ InitNonStream

SpecCapture == Init /\ [][NextCapture]_vars

SpecVAD == Init /\ [][NextVAD]_vars

SpecCallers == Init /\ [][NextCallers]_vars

SpecScenario == InitScenario /\ [][NextScenario]_vars

SpecMono == InitTwoThresholds /\ [][NextMono]_vars

SpecRecognize == InitKeepOrNot /\ [][NextRecognize]_vars

SpecNormalize == InitSmallStream /\ [][NextNormalize]_vars

SpecBlocks == InitBlockStream /\ [][NextBlocks]_vars

SpecNonStream == Init /\ [][NextNonStream]_vars

\* a live segmentation thread is scheduled again and again, get(timeout=0.1)
\* returns or expires, and the engine process ends; the callers of start() and
\* stop() and the capture owe no step
SpecStall ==
    Init /\ [][NextStall]_vars /\ \A t \in SegThreads : WF_vars(SegStep(t))

----------------------------------------------------------------------------
(* Claims *)

\* ids of the frames of utterance u
FrameIds(u) == {u.frames[k].id : k \in DOMAIN u.frames}

\* C1: when stop() is called in state SPEECH with a non-empty utterance buffer,
\* then by the time stop() returns the frames of that buffer have been handed to
\* recognition in exactly one utterance
C1_FlushOnStop ==
    [][ \A c \in Callers :
          (callPc[c] = "stop_join" /\ callPc'[c] = "idle" /\ stopPending[c] # <<>>)
            => Cardinality({i \in DOMAIN utterances' :
                              stopPending[c][1].id \in FrameIds(utterances'[i])}) = 1 ]_vars

\* C2: at most one native stream (sounddevice or PyAudio) is open at any time
C2_AtMostOneStream == Cardinality(openStreams) <= 1

\* C3: once stop_capture has returned and until the next start, the stop event is
\* set, so that a repeated stop_capture returns at its guard and changes nothing,
\* and no native stream is open
C3_IdempotentStop ==
    (apiPc = "idle" /\ lastCall = "stop") => (ac_stop_event /\ openStreams = {})

\* C4: for every session whose stop_capture has returned, the capture thread has
\* exited and the stream the session opened is not open, then or later
C4_StopClosesSession ==
    \A t \in stoppedSessions : capPc[t] = "done" /\ t \notin openStreams

\* C5: no capture callback ever waits for queue space
C5_CallbackNeverBlocks == \A s \in CaptureThreads : cbBlocked[s] = NoFrame

\* C6: the frame queue never holds more frames than its configured bound
C6_QueueBounded == Len(audio_queue) <= maxsize

\* C6 witness: a frame arrived while the queue was full, and the queue is full
C6_Witness == Len(audio_queue) = maxsize /\ nextFrame > maxsize + 1

\* a block is delivered by a native backend while the queue is full
FrameArrivesOnFullQueue == nextFrame' = nextFrame + 1 /\ QueueFull(audio_queue)

C8_DispatchReturnsImmediately ==
    \A i \in DOMAIN utterances :
        utterances[i].st = "inflight" => utterances[i].runner = 0

\* the number of frames classified as silence at the end of p
TrailingSilentRun(p) ==
    CHOOSE n \in 0..Len(p) :
        /\ \A j \in (Len(p) - n + 1)..Len(p) : ~p[j].speech
        /\ n < Len(p) => p[Len(p) - n].speech

C10_ThresholdMonotone ==
    monoT1 <= monoT2 => \A k \in DOMAIN monoD2 : monoD2[k] => monoD1[k]

\* C10 witness: under the lower threshold one frame more is speech than under the
\* higher one, and some frame is speech under both
C10_Witness ==
    /\ monoT1 < monoT2
    /\ \E k \in DOMAIN monoD1 : monoD1[k] /\ ~monoD2[k]
    /\ \E k \in DOMAIN monoD2 : monoD2[k]

\* C11 (as claimed): once the 18 frames of the scenario have been processed, exactly
\* one utterance has been flushed, and it holds the five loud frames
C11_OneUtterance ==
    Len(processed) = Len(ScenarioInput)
        => /\ Len(utterances) = 1
           /\ 2..6 \subseteq FrameIds(utterances[1])

\* C11 (amended): with smoothing factor 0.9 the smoothed energy stays above the
\* threshold through all 12 silent frames, so every frame from the first loud one
\* on is classified as speech and buffered, the silence counter stays 0, the state
\* stays SPEECH and nothing is flushed
C11_NoFlushInScenario ==
    Len(processed) >= 2
        => /\ current_state = "SPEECH"
           /\ silent_frames_count = 0
           /\ utterances = <<>>
           /\ Len(speech_frames) = Len(processed) - 1
           /\ \A k \in 2..Len(processed) : processed[k].speech
           /\ \A t \in SegThreads : segPc[t] \notin {"flush", "clear", "recognize"}

\* C11 witness: all 18 frames have been processed, in order, and the 17 frames from
\* the first loud one on are still in the buffer
C11_Witness ==
    /\ Len(processed) = Len(ScenarioInput)
    /\ \A k \in DOMAIN processed : processed[k].id = k
    /\ current_state = "SPEECH"
    /\ Len(speech_frames) = 17
    /\ smoothed_energy > config.speech_threshold

\* the VAD state as the constructor leaves it
VadStateReset ==
    /\ current_state = "SILENCE"
    /\ speech_frames = <<>>
    /\ silent_frames_count = 0
    /\ smoothed_energy = 0

\* C12: a start() that creates a thread and a stop() that returns after its join
\* leave the VAD state reset (SILENCE, empty buffer, counter 0, smoothed energy 0),
\* and so does the hand-off of an utterance
C12_ResetOnStartStop ==
    [][ /\ processing_thread' \notin {0, processing_thread} => VadStateReset'
        /\ (\E c \in Callers : callPc[c] = "stop_join" /\ callPc'[c] = "idle")
              => VadStateReset'
        /\ Len(utterances') > Len(utterances) => VadStateReset' ]_vars

\* C13: when the transcription of an utterance fails, the failure is reported, the
\* thread that ran it is back in its loop, and the VAD state and the queue are as
\* they were
C13_FailureIsolated ==
    [][ \A i \in DOMAIN utterances :
          (utterances[i].st = "inflight" /\ Failed(utterances'[i].st))
            => /\ Reported(utterances'[i].st)
               /\ utterances[i].runner # 0 => segPc'[utterances[i].runner] = "check"
               /\ UNCHANGED <<speech_frames, smoothed_energy, current_state,
                              silent_frames_count, audio_queue>> ]_vars

\* C14: once a call of recognize_audio_chunk has finished, and no other call is
\* working on the same paths, neither its WAV file nor its transcript exists
C14_NoScratchLeft ==
    \A k \in Tasks :
        (/\ tasks[k].pc = "done"
         /\ \A j \in Tasks \ {k} :
               tasks[j].pc \in {"write", "engine", "finally"} => WavOf(j) # WavOf(k))
        => WavOf(k) \notin temp_files /\ TxtOf(k) \notin temp_files

\* C15: no audio is delivered twice: of the utterances that share a frame, at most
\* one had its text handed to on_speech_recognized
C15_AtMostOnce ==
    \A i, j \in DOMAIN utterances :
        (i # j /\ FrameIds(utterances[i]) \cap FrameIds(utterances[j]) # {})
            => ~(utterances[i].st = "text" /\ utterances[j].st = "text")

\* C16: the frames run through the VAD state machine are in capture order
C16_CaptureOrder ==
    \A a, b \in DOMAIN processed : a < b => processed[a].id < processed[b].id

\* the thread of the last start_*_capture
LatestThread == Cardinality(ThreadsCreated)

\* C17: after start_system_audio_capture has returned None because the wait for
\* capture_started_event expired, and until the next call, neither the stream nor
\* the PyAudio instance of that attempt is open
C17_TimeoutTearsDown ==
    (apiPc = "idle" /\ lastCall = "sys" /\ apiResult = "None" /\ ac_stop_event)
        => LatestThread \notin openStreams /\ LatestThread \notin openInstances

\* C18: while the sample rate returned by the last start_*_capture stands (no call
\* since), the capture thread of that session has not ended on a failed open
C18_OpenFailureSurfaces ==
    (apiPc = "idle" /\ lastCall \in {"mic", "sys"} /\ apiResult = "target"
       /\ ~ac_stop_event)
        => capPc[LatestThread] \notin {"finally", "done"}

\* C19: no call of stop() ends with an exception, whoever else is calling stop()
C19_StopNeverRaises == \A c \in Callers : callPc[c] # "raised"

\* C20: the callers of start() and stop() touch the VAD state (start() clears the
\* buffer and the smoothed energy, stop() reads is_speaking and the buffer after
\* its join) only when no segmentation thread is alive
C20_SegmenterOwnsState ==
    [][ (\/ processing_thread' \notin {0, processing_thread}
         \/ \E c \in Callers : callPc[c] = "stop_join" /\ callPc'[c] = "idle")
        => \A t \in SegThreads : ~SegAlive(t) ]_vars

\* C21: once a stop() has set the stop event and waits in its join for segmentation
\* thread t, t eventually leaves its loop and terminates, whether or not another
\* frame arrives
C21_StopWakes ==
    \A t \in SegThreads :
        (\E c \in Callers : callPc[c] = "stop_join" /\ joined[c] = t) ~> ~SegAlive(t)

\* the capture has stalled for good while the running recognizer is mid-utterance
MidUtteranceStall ==
    /\ current_state = "SPEECH"
    /\ speech_frames # <<>>
    /\ audio_queue = <<>>
    /\ nextFrame > Len(StallInput)
    /\ SegAlive(processing_thread)
    /\ ~rec_stop_event

\* C29: when the capture stalls mid-utterance, the timeouts of the queue count as
\* silence, so the buffered utterance is eventually flushed (unless stop() is
\* called first)
C29_StallFlushes == MidUtteranceStall ~> (speech_frames = <<>> \/ rec_stop_event)

\* the calls of recognize_audio_chunk that have been made and have not returned
TasksInFlight == {k \in Tasks : tasks[k].pc \in {"write", "engine", "finally"}}

\* C22: the transcriptions in flight at one time stay under a cap: however many
\* calls of recognize_audio_chunk are made, they are never all in flight together
C22_ConcurrencyCap == Cardinality(TasksInFlight) < MaxTasks

\* frame f was classified as speech when it was processed
ClassifiedSpeech(f) ==
    \E j \in DOMAIN processed : processed[j].id = f.id /\ processed[j].speech

\* C23: every utterance handed to recognize_audio_chunk is non-empty, holds a frame
\* that was classified as speech, and is not all zero
C23_NoDegenerateUtterance ==
    \A i \in DOMAIN utterances :
        /\ utterances[i].frames # <<>>
        /\ \E k \in DOMAIN utterances[i].frames : ClassifiedSpeech(utterances[i].frames[k])
        /\ AnySample(utterances[i].frames)

\* the classification of the frame processed last
LastProcessed == processed[Len(processed)]

\* thread t runs the frame it holds through _process_audio_frame in this step, the
\* recognizer being in state st and the frame classified as speech or not
FrameStep(t, st, speech) ==
    /\ segPc[t] = "frame"
    /\ segPc'[t] # "frame"
    /\ current_state = st
    /\ processed'[Len(processed')].speech = speech

C25_SilenceSpeech ==
    [][ \A t \in SegThreads :
          FrameStep(t, "SILENCE", TRUE)
            => /\ current_state' = "SPEECH"
               /\ silent_frames_count' = 0
               /\ speech_frames' = <<held[t]>> ]_vars

\* C26: a frame classified as speech in SPEECH leaves the state SPEECH, is appended,
\* resets the counter, and nothing is flushed
C26_SpeechSpeech ==
    [][ \A t \in SegThreads :
          FrameStep(t, "SPEECH", TRUE)
            => /\ current_state' = "SPEECH"
               /\ speech_frames' = Append(speech_frames, held[t])
               /\ silent_frames_count' = 0
               /\ utterances' = utterances
               /\ segPc'[t] = "check" ]_vars

\* C26 witness: a speech frame has just been processed in SPEECH after a silent one:
\* it is the last of the buffer and the counter is back at 0
C26_Witness ==
    /\ Len(processed) >= 2
    /\ LastProcessed.state = "SPEECH" /\ LastProcessed.speech
    /\ processed[Len(processed) - 1].state = "SPEECH"
    /\ ~processed[Len(processed) - 1].speech
    /\ current_state = "SPEECH"
    /\ Len(speech_frames) >= 2
    /\ speech_frames[Len(speech_frames)].id = LastProcessed.id
    /\ silent_frames_count = 0
    /\ \A t \in SegThreads : segPc[t] \notin {"flush", "clear"}

\* C27: a frame classified as silence in SILENCE changes nothing but the smoothed
\* energy: the state, the buffer, the counter and the utterances stay as they were
C27_SilenceSilence ==
    [][ \A t \in SegThreads :
          FrameStep(t, "SILENCE", FALSE)
            => /\ UNCHANGED <<current_state, speech_frames, silent_frames_count,
                              utterances, segment>>
               /\ segPc'[t] = "check"
               /\ smoothed_energy' = SmoothedEnergy(smoothed_energy, held[t].e) ]_vars

\* C27 witness: after an utterance has been flushed, a frame has been classified as
\* silence in SILENCE; the buffer is empty and the smoothed energy has moved
C27_Witness ==
    /\ utterances # <<>>
    /\ processed # <<>>
    /\ LastProcessed.state = "SILENCE" /\ ~LastProcessed.speech
    /\ current_state = "SILENCE"
    /\ speech_frames = <<>>
    /\ silent_frames_count = 0
    /\ smoothed_energy > 0
    /\ \A i \in DOMAIN utterances :
          \A k \in DOMAIN utterances[i].frames :
             utterances[i].frames[k].id # LastProcessed.id

LastEntered ==
    LET entered == {k \in DOMAIN processed :
                       processed[k].state = "SILENCE" /\ processed[k].speech}
    IN  IF entered = {} THEN 1
        ELSE CHOOSE k \in entered : \A j \in entered : j <= k

\* the ids of a sequence of frames, in order
Ids(frames) == [k \in DOMAIN frames |-> frames[k].id]

\* C28: the utterance handed over by a flush holds, in order, exactly the frames
\* processed since the recognizer last entered SPEECH; after the hand-off the
\* buffer is empty and the counter 0, and no frame of it is in another utterance
C28_FlushHandsOver ==
    [][ Len(utterances') > Len(utterances)
          => LET u == utterances'[Len(utterances')]
             IN  /\ Ids(u.frames) = Ids(SubSeq(processed, LastEntered, Len(processed)))
                 /\ speech_frames' = <<>>
                 /\ silent_frames_count' = 0
                 /\ \A i \in DOMAIN utterances :
                       FrameIds(utterances[i]) \cap FrameIds(u) = {} ]_vars

\* the segmentation threads that are alive
AliveSegThreads == {t \in SegThreads : SegAlive(t)}

\* C34: at most one segmentation thread of a recognizer is alive at any time,
\* whatever start() and stop() calls were made
C34_OneSegmenter == Cardinality(AliveSegThreads) <= 1

\* no thread is inside _process_audio_frame, between the flush decision and the
\* reset of the buffer
BetweenFrames == \A t \in SegThreads : segPc[t] \notin {"flush", "clear"}

\* C35: between frames, SILENCE goes with an empty buffer and a zero counter, and
\* SPEECH with a non-empty buffer and a counter below silence_frames_needed
C35_StateInvariant ==
    BetweenFrames
        => /\ current_state = "SILENCE"
                => speech_frames = <<>> /\ silent_frames_count = 0
           /\ current_state = "SPEECH"
                => /\ speech_frames # <<>>
                   /\ silent_frames_count < silence_frames_needed

\* C36: a start() called while a segmentation thread of the recognizer is alive
\* changes nothing: not the stop event, not the VAD state, and it creates no thread
C36_StartIsNoOp ==
    [][ (AliveSegThreads # {} /\ \E c \in Callers : Start(c))
          => UNCHANGED vadVars ]_vars

\* C37: texts reach on_speech_recognized in flush order: when the text of an
\* utterance is delivered, no utterance flushed after it has had its text delivered
C37_DeliveryOrder ==
    [][ \A i \in DOMAIN utterances :
          (utterances[i].st # "text" /\ utterances'[i].st = "text")
             => \A j \in DOMAIN utterances : j > i => utterances[j].st # "text" ]_vars

\* C40: the calls of recognize_audio_chunk in flight at one time work on distinct
\* WAV paths, so none writes over or removes the file another is transcribing
C40_DistinctScratchPaths ==
    \A j, k \in TasksInFlight : j # k => WavOf(j) # WavOf(k)

\* C38: from the return of stop_capture until the next start the frame queue is
\* empty: no callback of the stopped session enqueues a frame after the drain
C38_EmptyAfterStop ==
    (apiPc = "idle" /\ lastCall = "stop") => audio_queue = <<>>

ChannelValues(in_data, c, i) == SubSeq(in_data, (i - 1) * c + 1, i * c)

RECURSIVE SumOf(_)
SumOf(vals) == IF vals = <<>> THEN 0 ELSE vals[1] + SumOf(Tail(vals))

\* C33: the mono block the loopback callback computes from n sample-frames of c
\* interleaved channels has n samples, sample i being the mean of the c channel
\* values of sample-frame i as floats; with one channel it is the block as floats
C33_Downmix ==
    (stream.kind = "sys" /\ norm # NoBlock)
        => LET c == stream.channels
               n == stream.frame_count
           IN  /\ Len(norm.mono_audio) = n
               /\ \A i \in 1..n :
                     norm.mono_audio[i].num * 32768 * c
                         = SumOf(ChannelValues(norm.in_data, c, i)) * norm.mono_audio[i].den
               /\ c = 1 => norm.mono_audio = [i \in 1..n |-> ToFloat(norm.in_data[i])]

\* a two-channel block of two sample-frames whose channels differ was downmixed
C33_Witness ==
    /\ stream.kind = "sys"
    /\ stream.channels = 2
    /\ norm.in_data = <<-2, 1, 4, 4>>
    /\ norm.mono_audio = <<Float(-1, 65536), Float(8, 65536)>>

\* C31: a thread sets out on a silence-triggered flush only after consecutive
\* frames classified as silent that together last at least silence_duration
C31_SilenceSpan ==
    [][ \A t \in SegThreads :
          (segPc[t] = "frame" /\ segPc'[t] = "flush")
             => TrailingSilentRun(processed') * FrameDuration(stream)
                    >= config.silence_duration ]_vars

\* the chunks of a sequence of blocks, in order
RECURSIVE ChunksOf(_)
ChunksOf(blocks) ==
    IF blocks = <<>> THEN <<>> ELSE blocks[1].chunks \o ChunksOf(Tail(blocks))

\* the chunks a processing thread still in its loop holds in the buffer
Buffered ==
    IF \E t \in NsThreads : nsPc[t] \in {"check", "get", "final"}
    THEN NpConcatenate(audio_buffer)
    ELSE <<>>

====
